---- MODULE Spec2Model ----
(***************************************************************************)
(* Model of BHChipReset (tt_tools_common/reset_common/bh_reset.py):        *)
(* reset_device_ioctl and full_lds_reset, one action per statement group.  *)
(***************************************************************************)
EXTENDS Integers, Sequences, FiniteSets, TLC

(* ------------------------------- bounds -------------------------------- *)
\* device interface ids are 0..MaxDeviceId
MaxDeviceId == 1
\* longest input list given to full_lds_reset
MaxLen == 3
\* clock ticks per second of wall-clock time
TicksPerSecond == 2

(* -------------------------- program constants -------------------------- *)
TENSTORRENT_RESET_DEVICE_RESTORE_STATE == 0
TENSTORRENT_RESET_DEVICE_RESET_PCIE_LINK == 1
TENSTORRENT_RESET_DEVICE_CONFIG_WRITE == 2
POST_RESET_MSG_WAIT_TIME == 2

(* ------------------------------ input sets ----------------------------- *)
DeviceIds == 0..MaxDeviceId

\* get_host_info()["Platform"], as a sequence of characters
Platforms ==
    { <<"x","8","6","_","6","4">>,
      <<"a","a","r","c","h","6","4">>,
      <<"a","r","m","v","7","l">> }

\* values time.time() can have when the poll stage starts, in ticks (the loop
\* reads differences of clock values only)
StartTimes == {7}
\* ticks that pass during one round of the poll loop (reads and the 1 ms sleep)
ClockSteps == {1, 2}
\* what os.pread(fd, 1, 4) can return: one byte, or nothing at end of file
SampleReads == { <<>>, <<0>>, <<1>>, <<2>>, <<3>>, <<253>>, <<255>> }
\* 32-bit values the kernel can write into an output field
KernelWords == {0, 1, 2147483647}

(* ------------------------------- helpers ------------------------------- *)
\* str.startswith
StartsWith(s, p) == Len(s) >= Len(p) /\ SubSeq(s, 1, Len(p)) = p

IsArmMutantOnlyArm(p) == StartsWith(p, <<"a","r","m">>)
\* line 74: platform.startswith("arm") or platform.startswith("aarch")
IsArm(p) == StartsWith(p, <<"a","r","m">>) \/ StartsWith(p, <<"a","a","r","c","h">>)

Range(s) == { s[n] : n \in DOMAIN s }

DedupOrdersMutantKeep(xs) == {xs}
\* the orders in which list(set(xs)) can enumerate the distinct elements of xs
DedupOrders(xs) ==
    LET S == Range(xs)
    IN  { s \in [1..Cardinality(S) -> S] :
            \A a, b \in 1..Cardinality(S) : a # b => s[a] # s[b] }

\* PciChip(pci_interface=d).get_pci_bdf()
Bdf(d) == <<"bdf", d>>

\* struct.pack of one "I" field (4 bytes, little endian on the supported hosts)
Pack32(v) == << v % 256, (v \div 256) % 256, (v \div 65536) % 256, (v \div 16777216) % 256 >>
\* struct.unpack of one "I" field
Unpack32(b) == b[1] + 256 * b[2] + 65536 * b[3] + 16777216 * b[4]
\* struct.calcsize of a format of "I" fields
CalcSize(fmt) == 4 * Len(fmt)

reset_device_in_struct == <<"I", "I">>
reset_device_out_struct == <<"I", "I">>
input_size_bytes == CalcSize(reset_device_in_struct)
output_size_bytes == CalcSize(reset_device_out_struct)

\* line 49-51: struct.pack("IIII", output_size_bytes, flags, 0, 0)
PackBuffer(fl) == Pack32(output_size_bytes) \o Pack32(fl) \o Pack32(0) \o Pack32(0)

ResultOfMutantFirstField(buf) ==
    LET output_buf == SubSeq(buf, input_size_bytes + 1, Len(buf))
    IN  Unpack32(SubSeq(output_buf, 1, 4)) = 0
\* lines 56-59: _, result = struct.unpack("II", buf[input_size_bytes:]); result == 0
ResultOf(buf) ==
    LET output_buf == SubSeq(buf, input_size_bytes + 1, Len(buf))
    IN  Unpack32(SubSeq(output_buf, 5, 8)) = 0

\* int.from_bytes(b, byteorder='little') of at most one byte
IntFromBytes(b) == IF Len(b) = 0 THEN 0 ELSE b[1]

ResetBitMutantBit0(b) == IntFromBytes(b) % 2
ResetBitMutantShiftTwo(b) == (IntFromBytes(b) \div 4) % 2
\* line 114: (int.from_bytes(command_memory_byte, 'little') >> 1) & 1
ResetBit(b) == (IntFromBytes(b) \div 2) % 2

\* bit 1 of the byte a sample delivered (of no byte: of zero), as the poll loop
\* is meant to see it
Bit1(b) == IF IntFromBytes(b) % 4 >= 2 THEN 1 ELSE 0

StoreBitMutantSticky(old, new) == IF old = 0 THEN 0 ELSE new
\* line 116: reset_bit_map[pci_interface] = reset_bit
StoreBit(old, new) == new

NodesAfterCloseMutantOnlyOnSuccess(nodes, fd, e) == IF e = "none" THEN nodes \ {fd} ELSE nodes
\* lines 60-61: finally: os.close(dev_fd)
NodesAfterClose(nodes, fd, e) == nodes \ {fd}

TimeoutTicks == POST_RESET_MSG_WAIT_TIME * TicksPerSecond

LoopContinuesMutantInclusive(e) == e <= TimeoutTicks
\* line 111: while elapsed < self.POST_RESET_MSG_WAIT_TIME
LoopContinues(e) == e < TimeoutTicks

Event(kind, d, a) == [ev |-> kind, dev |-> d, arg |-> a]

(* -------------------------------- state -------------------------------- *)
VARIABLES
    platform,          \* get_host_info()["Platform"]
    pci_interfaces,    \* the argument, and from line 83 on the deduplicated list
    input_ids,         \* the ids the caller passed, as a set
    input_len,         \* the length of the list the caller passed
    pc,                \* position in full_lds_reset / reset_device_ioctl
    stage,             \* the stage of full_lds_reset that is running
    i,                 \* index of the current for loop
    pci_bdf_list,      \* line 89
    files_map,         \* line 105
    open_cfg,          \* config-space files that are open in the process
    reset_bit_map,     \* line 110
    completed,         \* line 104
    elapsed,           \* line 107
    start_time,        \* line 108
    clock,             \* last value of time.time()
    interface_id,      \* reset_device_ioctl argument
    flags,             \* reset_device_ioctl argument
    dev_fd,            \* line 39: the descriptor of the control node, -1 before os.open
    open_nodes,        \* descriptors of control nodes that are open in the process
    reset_device_buf,  \* line 49
    result,            \* value returned by the last reset_device_ioctl call
    exc,               \* exception in flight, "none" without one
    pci_chips,         \* line 141
    history,           \* the I/O done so far, in order
    sawZero,           \* devices for which some sample of the poll loop had bit 0
    sampled,           \* number of samples taken per device
    lastBit,           \* bit of the most recent sample per device
    classified         \* the outcome reported per device (lines 123-128)

vars == << platform, pci_interfaces, input_ids, input_len, pc, stage, i, pci_bdf_list, files_map,
           open_cfg, reset_bit_map, completed, elapsed, start_time, clock,
           interface_id, flags, dev_fd, open_nodes, reset_device_buf, result, exc,
           pci_chips, history, sawZero, sampled, lastBit, classified >>

batchVars == << platform, pci_interfaces, input_ids, input_len >>
ioctlVars == << interface_id, flags, dev_fd, open_nodes, reset_device_buf, result >>
pollVars  == << reset_bit_map, completed, elapsed, start_time, clock >>
ghostVars == << sawZero, sampled, lastBit, classified >>

Inputs == UNION { [1..n -> DeviceIds] : n \in 0..MaxLen }

Init ==
    /\ platform \in Platforms
    /\ pci_interfaces \in Inputs
    /\ input_ids = Range(pci_interfaces)
    /\ input_len = Len(pci_interfaces)
    /\ pc = "start"
    /\ stage = "preflight"
    /\ i = 0
    /\ pci_bdf_list = <<>>
    /\ files_map = <<>>
    /\ open_cfg = {}
    /\ reset_bit_map = <<>>
    /\ completed = 0
    /\ elapsed = 0
    /\ start_time = 0
    /\ clock = 0
    /\ interface_id = -1
    /\ flags = -1
    /\ dev_fd = -1
    /\ open_nodes = {}
    /\ reset_device_buf = <<>>
    /\ result = "none"
    /\ exc = "none"
    /\ pci_chips = <<>>
    /\ history = <<>>
    /\ sawZero = {}
    /\ sampled = [d \in DeviceIds |-> 0]
    /\ lastBit = <<>>
    /\ classified = <<>>

(* ------------------------------- helpers ------------------------------- *)
Log(kind, d, a) == history' = Append(history, Event(kind, d, a))

RaiseMutantRestoreFirst(kind) ==
    /\ pc' = "restore_for"
    /\ exc' = kind
\* an exception leaves full_lds_reset: nothing of the function runs after it
Raise(kind) ==
    /\ pc' = "raised"
    /\ exc' = kind

CallIoctlMutantLinkReset(d, fl) ==
    /\ pc' = "os_open"
    /\ interface_id' = d
    /\ flags' = IF fl = TENSTORRENT_RESET_DEVICE_CONFIG_WRITE
                THEN TENSTORRENT_RESET_DEVICE_RESET_PCIE_LINK ELSE fl
    /\ dev_fd' = -1
    /\ reset_device_buf' = <<>>
    /\ result' = "none"
\* the call of reset_device_ioctl(d, fl) from full_lds_reset
CallIoctl(d, fl) ==
    /\ pc' = "os_open"
    /\ interface_id' = d
    /\ flags' = fl
    /\ dev_fd' = -1
    /\ reset_device_buf' = <<>>
    /\ result' = "none"

(* ------------------------- full_lds_reset: preflight -------------------- *)
\* lines 73-80: sys.exit(1) on Arm hosts
CheckPlatform ==
    /\ pc = "start"
    /\ IF IsArm(platform)
         THEN /\ pc' = "exited"
              /\ exc' = "SystemExit"
         ELSE /\ pc' = "dedup"
              /\ exc' = exc
    /\ UNCHANGED << batchVars, stage, i, pci_bdf_list, files_map, open_cfg, pollVars,
                    ioctlVars, pci_chips, history, ghostVars >>

\* lines 83-89: pci_interfaces = list(set(pci_interfaces)); pci_bdf_list = {}
Dedup ==
    /\ pc = "dedup"
    /\ pci_interfaces' \in DedupOrders(pci_interfaces)
    /\ pci_bdf_list' = <<>>
    /\ i' = 1
    /\ stage' = "config_write"
    /\ pc' = "cfg_for"
    /\ UNCHANGED << platform, input_ids, input_len, files_map, open_cfg, pollVars,
                    ioctlVars, exc, pci_chips, history, ghostVars >>

(* ---------------------- full_lds_reset: config write -------------------- *)
\* line 92: for pci_interface in pci_interfaces (and line 104 after the loop)
CfgFor ==
    /\ pc = "cfg_for"
    /\ IF i <= Len(pci_interfaces)
         THEN /\ pc' = "get_bdf"
              /\ UNCHANGED << i, completed, stage >>
         ELSE /\ pc' = "open_files"
              /\ completed' = 0
              /\ i' = 1
              /\ stage' = "open_config"
    /\ UNCHANGED << batchVars, pci_bdf_list, files_map, open_cfg, reset_bit_map, elapsed,
                    start_time, clock, ioctlVars, exc, pci_chips, history, ghostVars >>

\* lines 94-98: resolve the BDF, store it, call reset_device_ioctl(CONFIG_WRITE)
GetPciBdf ==
    /\ pc = "get_bdf"
    /\ LET d == pci_interfaces[i]
       IN  \/ /\ pci_bdf_list' = (d :> Bdf(d)) @@ pci_bdf_list
              /\ Log("bdf", d, -1)
              /\ CallIoctl(d, TENSTORRENT_RESET_DEVICE_CONFIG_WRITE)
              /\ UNCHANGED << exc, open_nodes >>
           \/ /\ Raise("DeviceResolutionError")
              /\ UNCHANGED << pci_bdf_list, history, ioctlVars >>
    /\ UNCHANGED << batchVars, stage, i, files_map, open_cfg, pollVars, pci_chips,
                    ghostVars >>

(* --------------------------- reset_device_ioctl ------------------------- *)
\* lines 38-41: os.open of /dev/tenstorrent/<interface_id>, which can raise
OsOpen ==
    /\ pc = "os_open"
    /\ \/ /\ LET fd == Cardinality({ n \in DOMAIN history : history[n].ev = "open" }) + 1
             IN  /\ dev_fd' = fd
                 /\ open_nodes' = open_nodes \cup {fd}
          /\ Log("open", interface_id, -1)
          /\ pc' = "pack"
          /\ exc' = exc
       \/ /\ Raise("FileNotFoundError")
          /\ UNCHANGED << dev_fd, open_nodes, history >>
    /\ UNCHANGED << batchVars, stage, i, pci_bdf_list, files_map, open_cfg, pollVars,
                    interface_id, flags, reset_device_buf, result, pci_chips, ghostVars >>

\* lines 43-51: build the command buffer
PackBuf ==
    /\ pc = "pack"
    /\ reset_device_buf' = PackBuffer(flags)
    /\ pc' = "ioctl"
    /\ UNCHANGED << batchVars, stage, i, pci_bdf_list, files_map, open_cfg, pollVars,
                    interface_id, flags, dev_fd, open_nodes, result, exc, pci_chips,
                    history, ghostVars >>

\* lines 52-54: fcntl.ioctl; the kernel fills the two output fields, or the call raises
FcntlIoctl ==
    /\ pc = "ioctl"
    /\ Log("ioctl", interface_id, flags)
    /\ \/ /\ \E a, b \in KernelWords :
                reset_device_buf' =
                    SubSeq(reset_device_buf, 1, input_size_bytes) \o Pack32(a) \o Pack32(b)
          /\ pc' = "unpack"
          /\ exc' = exc
       \/ /\ exc' = "OSError"
          /\ pc' = "os_close"
          /\ UNCHANGED reset_device_buf
    /\ UNCHANGED << batchVars, stage, i, pci_bdf_list, files_map, open_cfg, pollVars,
                    interface_id, flags, dev_fd, open_nodes, result, pci_chips, ghostVars >>

\* lines 56-59: parse the output fields, compute the return value
Unpack ==
    /\ pc = "unpack"
    /\ result' = ResultOf(reset_device_buf)
    /\ pc' = "os_close"
    /\ UNCHANGED << batchVars, stage, i, pci_bdf_list, files_map, open_cfg, pollVars,
                    interface_id, flags, dev_fd, open_nodes, reset_device_buf, exc,
                    pci_chips, history, ghostVars >>

AfterIoctlMutantStopOnFalse ==
    IF result = FALSE THEN "chips"
    ELSE IF stage = "config_write" THEN "cfg_for" ELSE "restore_for"
\* where full_lds_reset continues after reset_device_ioctl returns
AfterIoctl == IF stage = "config_write" THEN "cfg_for" ELSE "restore_for"

\* lines 60-61: finally: os.close(dev_fd); then return, or let the exception go on
OsClose ==
    /\ pc = "os_close"
    /\ open_nodes' = NodesAfterClose(open_nodes, dev_fd, exc)
    /\ Log("close", interface_id, -1)
    /\ IF exc = "none"
         THEN /\ pc' = AfterIoctl
              /\ i' = i + 1
              \* the caller drops the returned value, the locals go with the frame
              /\ interface_id' = -1
              /\ flags' = -1
              /\ dev_fd' = -1
              /\ reset_device_buf' = <<>>
              /\ result' = "none"
         ELSE /\ pc' = "raised"
              /\ UNCHANGED << i, interface_id, flags, dev_fd, reset_device_buf, result >>
    /\ UNCHANGED << batchVars, stage, pci_bdf_list, files_map, open_cfg, pollVars, exc,
                    pci_chips, ghostVars >>

(* ------------------------ full_lds_reset: poll stage -------------------- *)
\* line 105: the dict comprehension opens one config file per device, in list order
OpenConfig ==
    /\ pc = "open_files"
    /\ i <= Len(pci_interfaces)
    /\ LET d == pci_interfaces[i]
       IN  \/ /\ files_map' = (d :> pci_bdf_list[d]) @@ files_map
              /\ open_cfg' = open_cfg \cup {pci_bdf_list[d]}
              /\ Log("cfg_open", d, -1)
              /\ i' = i + 1
              /\ UNCHANGED << pc, exc >>
           \/ /\ Raise("ConfigSpaceUnavailable")
              /\ UNCHANGED << files_map, open_cfg, history, i >>
    /\ UNCHANGED << batchVars, stage, pci_bdf_list, pollVars, ioctlVars, pci_chips,
                    ghostVars >>

InitialBitsMutantZero(ids) == [d \in ids |-> 0]
\* line 110: reset_bit_map = {pci_interface: 1 for pci_interface in pci_interfaces}
InitialBits(ids) == [d \in ids |-> 1]

\* lines 107-110: elapsed = 0; start_time = time.time(); reset_bit_map = {d: 1}
PollInit ==
    /\ pc = "open_files"
    /\ i > Len(pci_interfaces)
    /\ elapsed' = 0
    /\ \E t \in StartTimes : clock' = t /\ start_time' = t
    /\ reset_bit_map' = InitialBits(Range(pci_interfaces))
    /\ stage' = "poll"
    /\ pc' = "while"
    /\ UNCHANGED << batchVars, i, pci_bdf_list, files_map, open_cfg, completed, ioctlVars,
                    exc, pci_chips, history, ghostVars >>

\* line 111: the loop test
WhileTest ==
    /\ pc = "while"
    /\ IF LoopContinues(elapsed)
         THEN /\ pc' = "pread"
              /\ i' = 1
              /\ stage' = stage
         ELSE /\ pc' = "classify"
              /\ i' = 1
              /\ stage' = "classify"
    /\ UNCHANGED << batchVars, pci_bdf_list, files_map, open_cfg, pollVars, ioctlVars,
                    exc, pci_chips, history, ghostVars >>

PollListMutantPendingOnly == SelectSeq(pci_interfaces, LAMBDA d : reset_bit_map[d] # 0)
\* line 112: files_map.items(), in the order of insertion, which is that of
\* pci_interfaces
PollList == pci_interfaces

\* lines 112-116: read one byte at offset 4 of the next file, store its bit 1
PRead ==
    /\ pc = "pread"
    /\ i <= Len(PollList)
    /\ LET d == PollList[i]
       IN  \/ \E command_memory_byte \in SampleReads :
                 LET reset_bit == ResetBit(command_memory_byte)
                 IN  /\ reset_bit_map' =
                            [reset_bit_map EXCEPT ![d] = StoreBit(@, reset_bit)]
                     /\ sawZero' = IF Bit1(command_memory_byte) = 0
                                     THEN sawZero \cup {d} ELSE sawZero
                     /\ sampled' = [sampled EXCEPT ![d] = @ + 1]
                     /\ lastBit' = (d :> Bit1(command_memory_byte)) @@ lastBit
                     /\ i' = i + 1
                     /\ UNCHANGED << pc, exc >>
           \/ /\ Raise("OSError")
              /\ UNCHANGED << reset_bit_map, sawZero, sampled, lastBit, i >>
    /\ UNCHANGED << batchVars, stage, pci_bdf_list, files_map, open_cfg, completed,
                    elapsed, start_time, clock, ioctlVars, pci_chips, history,
                    classified >>

AllCompletedMutantLive == \A d \in DOMAIN reset_bit_map : reset_bit_map[d] = 0
\* line 117: completed == len(files_map.values())
AllCompleted == completed = Cardinality(DOMAIN files_map)

\* lines 117-120: the early exit, else sleep 1 ms and measure the elapsed time
RoundEnd ==
    /\ pc = "pread"
    /\ i > Len(PollList)
    /\ IF AllCompleted
         THEN /\ pc' = "classify"
              /\ i' = 1
              /\ stage' = "classify"
              /\ UNCHANGED << clock, elapsed >>
         ELSE /\ \E step \in ClockSteps : clock' = clock + step
              /\ elapsed' = clock' - start_time
              /\ pc' = "while"
              /\ UNCHANGED << i, stage >>
    /\ UNCHANGED << batchVars, pci_bdf_list, files_map, open_cfg, reset_bit_map,
                    completed, start_time, ioctlVars, exc, pci_chips, history, ghostVars >>

(* --------------------- full_lds_reset: classification ------------------- *)
ClassifyListMutantCompletedOnly ==
    SelectSeq(pci_interfaces, LAMBDA d : reset_bit_map[d] = 0)
\* line 123: the devices the classification loop goes over
ClassifyList == pci_interfaces

\* lines 123-128: report the device by the value its bit-map entry has now
Classify ==
    /\ pc = "classify"
    /\ i <= Len(ClassifyList)
    /\ LET d == ClassifyList[i]
       IN  /\ IF reset_bit_map[d] = 0
                THEN /\ classified' = (d :> "completed") @@ classified
                     /\ completed' = completed + 1
                ELSE /\ classified' = (d :> "not completed") @@ classified
                     /\ completed' = completed
           /\ Log("classify", d, -1)
    /\ i' = i + 1
    /\ UNCHANGED << batchVars, pc, stage, pci_bdf_list, files_map, open_cfg,
                    reset_bit_map, elapsed, start_time, clock, ioctlVars, exc, pci_chips,
                    sawZero, sampled, lastBit >>

\* line 130: the classification loop is over, the restore loop starts
ClassifyDone ==
    /\ pc = "classify"
    /\ i > Len(ClassifyList)
    /\ pc' = "restore_for"
    /\ i' = 1
    /\ stage' = "restore"
    /\ UNCHANGED << batchVars, pci_bdf_list, files_map, open_cfg, pollVars, ioctlVars,
                    exc, pci_chips, history, ghostVars >>

(* ------------------------- full_lds_reset: restore ---------------------- *)
RestoreListMutantCompletedOnly ==
    SelectSeq(pci_interfaces, LAMBDA d : reset_bit_map[d] = 0)
\* line 130: the devices the restore loop goes over
RestoreList == pci_interfaces

\* lines 130-133: reset_device_ioctl(RESTORE_STATE) for the next device
RestoreFor ==
    /\ pc = "restore_for"
    /\ IF i <= Len(RestoreList)
         THEN /\ CallIoctl(RestoreList[i], TENSTORRENT_RESET_DEVICE_RESTORE_STATE)
              /\ UNCHANGED << i, stage >>
         ELSE /\ pc' = "chips"
              /\ i' = 1
              /\ stage' = "completion"
              /\ UNCHANGED << interface_id, flags, dev_fd, reset_device_buf, result >>
    /\ UNCHANGED << batchVars, pci_bdf_list, files_map, open_cfg, pollVars, open_nodes,
                    exc, pci_chips, history, ghostVars >>

(* ------------------------ full_lds_reset: completion -------------------- *)
\* line 141: one PciChip per element of pci_interfaces; the constructor can raise
NewPciChip ==
    /\ pc = "chips"
    /\ i <= Len(pci_interfaces)
    /\ \/ /\ pci_chips' = Append(pci_chips, pci_interfaces[i])
          /\ Log("chip", pci_interfaces[i], -1)
          /\ i' = i + 1
          /\ UNCHANGED << pc, exc >>
       \/ /\ Raise("DeviceResolutionError")
          /\ UNCHANGED << pci_chips, history, i >>
    /\ UNCHANGED << batchVars, stage, pci_bdf_list, files_map, open_cfg, pollVars,
                    ioctlVars, ghostVars >>

\* line 142: return pci_chips; the frame goes, and with it the last references to
\* the config files, which the runtime closes then or at a later collection
Return ==
    /\ pc = "chips"
    /\ i > Len(pci_interfaces)
    /\ pc' = "done"
    /\ open_cfg' \in {{}, open_cfg}
    /\ UNCHANGED << batchVars, stage, i, pci_bdf_list, files_map, pollVars, ioctlVars,
                    exc, pci_chips, history, ghostVars >>

(* ---------------------------- specification ----------------------------- *)
Next ==
    \/ CheckPlatform
    \/ Dedup
    \/ CfgFor
    \/ GetPciBdf
    \/ OsOpen
    \/ PackBuf
    \/ FcntlIoctl
    \/ Unpack
    \/ OsClose
    \/ OpenConfig
    \/ PollInit
    \/ WhileTest
    \/ PRead
    \/ RoundEnd
    \/ Classify
    \/ ClassifyDone
    \/ RestoreFor
    \/ NewPciChip
    \/ Return

Spec == Init /\ [][Next]_vars

\* the interpreter keeps running the function until it returns, exits or raises
FairSpec == Spec /\ WF_vars(Next)

Ended == pc \in {"done", "raised", "exited"}

(* ------------------------- reading the history -------------------------- *)
\* number of events of a kind for a device
Count(kind, d) ==
    Cardinality({ n \in DOMAIN history : history[n].ev = kind /\ history[n].dev = d })
\* number of times the command fl was issued to device d
CmdCount(d, fl) ==
    Cardinality({ n \in DOMAIN history :
                    history[n].ev = "ioctl" /\ history[n].dev = d /\ history[n].arg = fl })
PollEnded == stage \in {"classify", "restore", "completion"}
AllZero(buf, from, to) == \A n \in from..to : buf[n] = 0

C2_AnyZeroSampleCompleted ==
    \A d \in DOMAIN classified : d \in sawZero => classified[d] = "completed"

\* C2 amended: a device is classified "completed" exactly when the last sample
\* taken for it in the poll loop had bit 0; a 0 that a later round overwrote
\* with 1 does not count.
C2_LastSampleDecides ==
    \A d \in DOMAIN classified :
        d \in DOMAIN lastBit =>
            (classified[d] = "completed" <=> lastBit[d] = 0)

\* a device sampled more than once, last with bit 0, and reported completed
C2_Witness ==
    \E d \in DOMAIN classified :
        /\ sampled[d] >= 2
        /\ lastBit[d] = 0
        /\ classified[d] = "completed"

(* -------------------------------- C3 ------------------------------------ *)
\* C3: a device for which no sample of the poll loop had bit 0 (never sampled
\* included) has bit-map entry 1, and is classified "not completed".
C3_NoZeroNotCompleted ==
    \A d \in DOMAIN reset_bit_map :
        d \notin sawZero =>
            /\ reset_bit_map[d] = 1
            /\ d \in DOMAIN classified => classified[d] = "not completed"

\* a device sampled in every round, always with bit 1, reported not completed
C3_Witness ==
    \E d \in DOMAIN classified :
        /\ d \notin sawZero
        /\ sampled[d] >= 2
        /\ classified[d] = "not completed"

(* -------------------------------- C4 ------------------------------------ *)
\* C4 as stated: reset_device_ioctl returns true exactly when the third
\* 32-bit field of the buffer (bytes 9..12) is zero after the call.
C4_ResultIffThirdFieldZero ==
    (pc = "os_close" /\ exc = "none") =>
        (result <=> AllZero(reset_device_buf, 9, 12))

\* C4 amended: the buffer is packed as the four 32-bit fields [8, flags, 0, 0],
\* and reset_device_ioctl returns true exactly when the fourth field (bytes
\* 13..16, the second output field) is zero after the call; the third field
\* is not looked at.
C4_ResultIffFourthFieldZero ==
    /\ pc = "ioctl" =>
          reset_device_buf = << 8, 0, 0, 0,  flags, 0, 0, 0,  0, 0, 0, 0,  0, 0, 0, 0 >>
    /\ (pc = "os_close" /\ exc = "none") =>
          /\ SubSeq(reset_device_buf, 1, 8) = << 8, 0, 0, 0,  flags, 0, 0, 0 >>
          /\ result <=> AllZero(reset_device_buf, 13, 16)

\* a call that returns true although the third field is not zero
C4_Witness ==
    /\ pc = "os_close"
    /\ exc = "none"
    /\ ~AllZero(reset_device_buf, 9, 12)
    /\ result = TRUE

(* -------------------------------- C5 ------------------------------------ *)
ArmHost ==
    \/ SubSeq(platform, 1, 3) = <<"a", "r", "m">>
    \/ SubSeq(platform, 1, 5) = <<"a", "a", "r", "c", "h">>
NoDeviceIO ==
    /\ history = <<>>
    /\ pci_bdf_list = <<>>
    /\ open_nodes = {}
    /\ open_cfg = {}
    /\ pci_chips = <<>>

\* C5: on a host whose platform string starts with "arm" or "aarch" no BDF is
\* resolved, no control node or config-space file is opened, no command is
\* issued and no device handle is made; the run ends by sys.exit.
C5_ArmAbortsBeforeIO ==
    ArmHost => /\ NoDeviceIO
               /\ pc \in {"start", "exited"}

\* the run on an Arm host, with devices to reset, after it has exited
C5_Witness ==
    /\ pc = "exited"
    /\ ArmHost
    /\ Len(pci_interfaces) >= 2

(* -------------------------------- C6 ------------------------------------ *)
\* C6: when the open of a control node fails, no command has been issued to
\* any device of the batch.
C6_OpenFailureBeforeAnyCommand ==
    (pc = "raised" /\ exc = "FileNotFoundError") =>
        \A n \in DOMAIN history : history[n].ev # "ioctl"

(* -------------------------------- C7 ------------------------------------ *)
StageCounts(d) ==
    << Count("bdf", d),
       CmdCount(d, TENSTORRENT_RESET_DEVICE_CONFIG_WRITE),
       Count("cfg_open", d),
       Count("classify", d),
       CmdCount(d, TENSTORRENT_RESET_DEVICE_RESTORE_STATE) >>

\* C7: the deduplicated batch lists each id of the input once and no other id;
\* BDF resolution, CONFIG_WRITE, config-space open, classification and
\* RESTORE_STATE each handle a distinct id at most once in any run, exactly
\* once in a run that returns, and never an id that is not in the input.
C7_EachStageOncePerDevice ==
    /\ stage # "preflight" =>
          /\ Range(pci_interfaces) = input_ids
          /\ Len(pci_interfaces) = Cardinality(input_ids)
    /\ \A d \in DeviceIds : \A k \in 1..5 :
          /\ StageCounts(d)[k] <= 1
          /\ d \notin input_ids => StageCounts(d)[k] = 0
    /\ pc = "done" =>
          \A d \in input_ids : \A k \in 1..5 : StageCounts(d)[k] = 1

\* a returned run whose input named two devices and held a duplicate
C7_Witness ==
    /\ pc = "done"
    /\ Cardinality(input_ids) = 2
    /\ input_len > Cardinality(input_ids)
    /\ \A d \in input_ids : StageCounts(d) = <<1, 1, 1, 1, 1>>

(* -------------------------------- C8 ------------------------------------ *)
InPollLoop == stage = "poll" /\ pc \in {"while", "pread"}

\* C8: the poll loop always ends (also when no sample ever has bit 0); a loop
\* test made with elapsed >= 2 seconds leaves the loop for the classification,
\* and no round runs with elapsed >= 2 seconds.
C8_PollLoopTerminates ==
    /\ InPollLoop ~> ~InPollLoop
    /\ [][(pc = "while" /\ elapsed >= 2 * TicksPerSecond) => pc' = "classify"]_vars
    /\ [](pc = "pread" => elapsed < 2 * TicksPerSecond)

\* the loop left by the timeout, no sample of any device having had bit 0
C8_Witness ==
    /\ pc = "classify"
    /\ elapsed >= 2 * TicksPerSecond
    /\ Cardinality(input_ids) = 2
    /\ sawZero = {}
    /\ \A d \in input_ids : sampled[d] >= 2

(* -------------------------------- C9 ------------------------------------ *)
Opens == Cardinality({ n \in DOMAIN history : history[n].ev = "open" })
Closes == Cardinality({ n \in DOMAIN history : history[n].ev = "close" })
InIoctlBody == pc \in {"pack", "ioctl", "unpack", "os_close"}

\* C9: at most one control node is open at any time; inside
\* reset_device_ioctl, after os.open, exactly the node of this call is open
\* and not yet closed; outside of it (after a return with true or false, and
\* after the ioctl call raised) every node opened has been closed exactly once.
C9_NodeClosedOnEveryPath ==
    /\ Cardinality(open_nodes) <= 1
    /\ InIoctlBody => open_nodes = {dev_fd} /\ Opens = Closes + 1
    /\ ~InIoctlBody => open_nodes = {} /\ Opens = Closes

\* the ioctl call of the restore stage raised, and the node is closed
C9_Witness ==
    /\ pc = "raised"
    /\ exc = "OSError"
    /\ stage = "restore"
    /\ Opens >= 2
    /\ history[Len(history)].ev = "close"
    /\ open_nodes = {}

(* -------------------------------- C10 ----------------------------------- *)
\* C10: no config-space file is open once the poll stage is over, and none is
\* left open when the open of one of them fails.
C10_ConfigHandlesReleased ==
    /\ stage \in {"restore", "completion"} => open_cfg = {}
    /\ (pc = "raised" /\ exc = "ConfigSpaceUnavailable") => open_cfg = {}

(* -------------------------------- C11 ----------------------------------- *)
AllRestored ==
    \A d \in input_ids : CmdCount(d, TENSTORRENT_RESET_DEVICE_RESTORE_STATE) = 1

\* C11: a run that returns hands back exactly one device handle per distinct
\* input id, and no handle is constructed before RESTORE_STATE has been issued
\* to every device of the batch.
C11_OneHandlePerDistinctId ==
    /\ pc = "done" =>
          /\ Len(pci_chips) = Cardinality(input_ids)
          /\ Range(pci_chips) = input_ids
          /\ \A d \in input_ids : Count("chip", d) = 1
    /\ pci_chips # <<>> => AllRestored

\* input of three entries naming two devices: two config writes, two restores,
\* two handles
C11_Witness ==
    /\ pc = "done"
    /\ input_len = 3
    /\ Cardinality(input_ids) = 2
    /\ Len(pci_chips) = 2
    /\ \A d \in input_ids :
          /\ CmdCount(d, TENSTORRENT_RESET_DEVICE_CONFIG_WRITE) = 1
          /\ CmdCount(d, TENSTORRENT_RESET_DEVICE_RESTORE_STATE) = 1

(* -------------------------------- C12 ----------------------------------- *)
\* C12: when CONFIG_WRITE is issued to any device, the BDF of every device of
\* the batch has been resolved.
C12_AllBdfBeforeAnyConfigWrite ==
    (\E n \in DOMAIN history :
        history[n].ev = "ioctl" /\ history[n].arg = TENSTORRENT_RESET_DEVICE_CONFIG_WRITE)
    => DOMAIN pci_bdf_list = input_ids

(* -------------------------------- C13 ----------------------------------- *)
AllConfigWritten ==
    \A d \in input_ids : CmdCount(d, TENSTORRENT_RESET_DEVICE_CONFIG_WRITE) = 1

\* C13: no config-space byte is sampled before CONFIG_WRITE has been issued to
\* every device, no device is classified before the poll loop has exited, no
\* RESTORE_STATE is issued before every device has been classified, and the
\* run returns only after all of that.
C13_StageOrder ==
    /\ (\E d \in DeviceIds : sampled[d] > 0) => AllConfigWritten
    /\ classified # <<>> => PollEnded /\ pc \notin {"while", "pread"}
    /\ \A n \in DOMAIN history :
          (history[n].ev = "ioctl"
             /\ history[n].arg = TENSTORRENT_RESET_DEVICE_RESTORE_STATE)
          => \A d \in input_ids :
                \E m \in 1..(n - 1) : history[m].ev = "classify" /\ history[m].dev = d
    /\ pc = "done" => AllConfigWritten /\ DOMAIN classified = input_ids /\ AllRestored

\* the restore stage under way for two devices, sampled and classified before
C13_Witness ==
    /\ stage = "restore"
    /\ pc = "ioctl"
    /\ Cardinality(input_ids) = 2
    /\ \A d \in input_ids : sampled[d] >= 2 /\ d \in DOMAIN classified
    /\ \E d \in input_ids : CmdCount(d, TENSTORRENT_RESET_DEVICE_RESTORE_STATE) = 1

(* -------------------------------- C14 ----------------------------------- *)
\* C14: from the start of the poll stage on, the BDF map, the handle map and
\* the bit map have the distinct input ids as their keys; every bit-map entry
\* is 0 or 1, and is 1 for a device not sampled yet.
C14_MapsShareKeys ==
    (stage = "poll" \/ PollEnded) =>
        /\ DOMAIN pci_bdf_list = input_ids
        /\ DOMAIN files_map = input_ids
        /\ DOMAIN reset_bit_map = input_ids
        /\ \A d \in input_ids :
              /\ reset_bit_map[d] \in {0, 1}
              /\ sampled[d] = 0 => reset_bit_map[d] = 1

\* the first round under way for two devices: one sampled with bit 0, one not yet
C14_Witness ==
    /\ stage = "poll"
    /\ pc = "pread"
    /\ elapsed = 0
    /\ Cardinality(input_ids) = 2
    /\ \E a, b \in input_ids :
          /\ sampled[a] = 1 /\ reset_bit_map[a] = 0
          /\ sampled[b] = 0 /\ reset_bit_map[b] = 1

(* -------------------------------- C15 ----------------------------------- *)
\* C15 as stated: for every batch, the empty one included, the loop is left
\* only with the elapsed time at or above the timeout (the break is never
\* taken).
C15_BreakNeverTaken ==
    PollEnded => elapsed >= 2 * TicksPerSecond

\* C15 amended: for every non-empty batch and every sequence of samples the
\* break is never taken and the loop is left only with the elapsed time at or
\* above the timeout; for the empty batch the counter (0) equals the device
\* count (0) and the break is taken in the first round.
C15_BreakOnlyForEmptyBatch ==
    PollEnded =>
        IF input_ids = {} THEN elapsed = 0
        ELSE elapsed >= 2 * TicksPerSecond

\* two devices whose entries are both 0 after the last round, and the loop
\* still ran until the timeout
C15_Witness ==
    /\ pc = "classify"
    /\ Cardinality(input_ids) = 2
    /\ \A d \in input_ids : sampled[d] >= 2 /\ lastBit[d] = 0 /\ reset_bit_map[d] = 0
    /\ elapsed >= 2 * TicksPerSecond

(* -------------------------------- C16 ----------------------------------- *)
\* C16: the value line 114 takes from a byte is (byte div 2) mod 2 for every
\* byte 0..255 (0x00 gives 0, 0x02 gives 1); after a sample the bit-map entry
\* of the device is bit 1 of the byte read last, whatever was sampled before,
\* and the classification goes by that entry.
C16_EntryIsBitOfLastSample ==
    /\ pc = "start" =>
          /\ \A b \in 0..255 : ResetBit(<<b>>) = (b \div 2) % 2
          /\ ResetBit(<<0>>) = 0
          /\ ResetBit(<<2>>) = 1
    /\ \A d \in DOMAIN lastBit : reset_bit_map[d] = lastBit[d]
    /\ \A d \in DOMAIN classified :
          classified[d] = (IF reset_bit_map[d] = 0 THEN "completed" ELSE "not completed")

\* a device whose 0 of an earlier round was overwritten by a 1
C16_Witness ==
    \E d \in DOMAIN classified :
        /\ d \in sawZero
        /\ sampled[d] >= 2
        /\ reset_bit_map[d] = 1
        /\ classified[d] = "not completed"

(* -------------------------------- C17 ----------------------------------- *)
\* C17: the value reset_device_ioctl returns does not influence the batch:
\* the step that returns it leads to the same state whether it is true or
\* false (the next device of the same loop, nothing else changed), and outside
\* of the call nothing in the state depends on what the kernel answered.
C17_ResultDoesNotInfluenceBatch ==
    /\ [][(pc = "os_close" /\ exc = "none") =>
            /\ pc' = (IF stage = "config_write" THEN "cfg_for" ELSE "restore_for")
            /\ i' = i + 1
            /\ exc' = "none"
            /\ history' = Append(history, Event("close", interface_id, -1))
            /\ result' = "none"
            /\ reset_device_buf' = <<>>
            /\ UNCHANGED << batchVars, stage, pci_bdf_list, files_map, open_cfg,
                            pollVars, pci_chips, ghostVars >>]_vars
    /\ [](pc \notin {"unpack", "os_close"} =>
            /\ result = "none"
            /\ reset_device_buf = <<>> \/ AllZero(reset_device_buf, 9, 16))

\* the second RESTORE_STATE call about to return false
C17_Witness ==
    /\ pc = "os_close"
    /\ exc = "none"
    /\ result = FALSE
    /\ stage = "restore"
    /\ i = 2

(* -------------------------------- C18 ----------------------------------- *)
Failed == exc \notin {"none", "SystemExit"}

\* C18: when a step of the config-write loop or the open of a config file
\* raises, no RESTORE_STATE or other command than CONFIG_WRITE has been issued
\* and no handle has been made; once an exception is under way no command is
\* issued any more, nothing is returned, and the run ends there.
C18_NoRollback ==
    /\ []((Failed /\ stage \in {"config_write", "open_config"}) =>
            /\ \A n \in DOMAIN history :
                  history[n].ev = "ioctl" =>
                      history[n].arg = TENSTORRENT_RESET_DEVICE_CONFIG_WRITE
            /\ pci_chips = <<>>)
    /\ [][Failed =>
            /\ pc' = "raised"
            /\ exc' = exc
            /\ pci_chips' = pci_chips
            /\ \/ history' = history
               \/ history' = Append(history, Event("close", interface_id, -1))]_vars
    /\ [][pc # "raised"]_vars

\* BDF resolution raised for a device after CONFIG_WRITE went to another one
C18_Witness ==
    /\ pc = "raised"
    /\ exc = "DeviceResolutionError"
    /\ stage = "config_write"
    /\ \E d \in input_ids : CmdCount(d, TENSTORRENT_RESET_DEVICE_CONFIG_WRITE) = 1
    /\ \A d \in input_ids : CmdCount(d, TENSTORRENT_RESET_DEVICE_RESTORE_STATE) = 0

(* -------------------------------- C19 ----------------------------------- *)
\* C19: between rounds and after the loop every device of the batch has been
\* sampled the same number of times, at least once after the loop; inside a
\* round the devices before the current position are one sample ahead of the
\* others.
C19_RoundsAreWhole ==
    /\ ((stage = "poll" /\ pc = "while") \/ PollEnded) =>
          \A a, b \in input_ids : sampled[a] = sampled[b]
    /\ PollEnded => \A a \in input_ids : sampled[a] >= 1
    /\ (stage = "poll" /\ pc \in {"pread", "raised"}) =>
          \A k, l \in 1..Len(pci_interfaces) :
              sampled[pci_interfaces[k]] =
                  sampled[pci_interfaces[l]]
                    + (IF k < i THEN 1 ELSE 0) - (IF l < i THEN 1 ELSE 0)

\* the loop left after three or more whole rounds over two devices
C19_Witness ==
    /\ pc = "classify"
    /\ Cardinality(input_ids) = 2
    /\ \A d \in input_ids : sampled[d] >= 3

(* -------------------------------- C20 ----------------------------------- *)
\* the flags of the commands issued to device d, in order
FlagsSentTo(d) ==
    LET cmds == SelectSeq(history, LAMBDA e : e.ev = "ioctl" /\ e.dev = d)
    IN  [n \in 1..Len(cmds) |-> cmds[n].arg]

\* C20: RESET_PCIE_LINK is never issued; the commands a device receives are
\* CONFIG_WRITE, then RESTORE_STATE, and nothing else.
C20_OnlyConfigWriteThenRestore ==
    /\ \A n \in DOMAIN history :
          history[n].ev = "ioctl" =>
              /\ history[n].arg # TENSTORRENT_RESET_DEVICE_RESET_PCIE_LINK
              /\ history[n].arg \in {TENSTORRENT_RESET_DEVICE_CONFIG_WRITE,
                                     TENSTORRENT_RESET_DEVICE_RESTORE_STATE}
    /\ \A d \in DeviceIds :
          FlagsSentTo(d) \in
              { <<>>,
                <<TENSTORRENT_RESET_DEVICE_CONFIG_WRITE>>,
                <<TENSTORRENT_RESET_DEVICE_CONFIG_WRITE,
                  TENSTORRENT_RESET_DEVICE_RESTORE_STATE>> }

\* a returned run in which two devices received both commands
C20_Witness ==
    /\ pc = "done"
    /\ Cardinality(input_ids) = 2
    /\ \A d \in input_ids : FlagsSentTo(d) = <<2, 0>>

====
